---- MODULE Spec2Model ----
(***************************************************************************)
(* A model of the godwoken-web3 api-server fragment:                       *)
(*   - the Gw RPC client wrapper and its error translator parseError       *)
(*     (packages/api-server/src/methods/modules/gw.ts, held here as        *)
(*     src/unnamed/part_000 lines 1-270),                                  *)
(*   - the fixed-layout decoder parsePolyjuiceSystemLog,                   *)
(*   - the Net module (lib/methods/modules/net.js),                        *)
(*   - the four telemetry bootstrap scripts (trace.js, opentelemetry.js,   *)
(*     opentelemetry_trace.js and part_000 lines 272-294).                 *)
(*                                                                         *)
(* JavaScript strings are sequences of one-character strings, byte         *)
(* buffers are sequences of 0..255.  TLC's integers are 32 bits wide, so   *)
(* the values read out of a buffer (an unsigned 32-bit number, an unsigned *)
(* 64-bit BigInt) are held as four base-65536 limbs, least significant     *)
(* first: no value is ever truncated.                                      *)
(***************************************************************************)
EXTENDS Integers, Sequences, FiniteSets, TLC

VARIABLES
    calls,                  \* Gw: one record per invocation of a forwarding method
    wire,                   \* Gw: per invocation, the outbound rpc calls it issued
    reply,                  \* Gw: per invocation, the state of its outbound promise
    GW_RPC_REQUEST_ERROR,   \* the constant imported from ../error-code
    error,                  \* translator run: the caught error handed to parseError
    logItem,                \* translator run: the LogItem handed to the decoder
    thrown,                 \* translator run: how parseError completed
    decoded,                \* translator run: how parsePolyjuiceSystemLog completed
    chain_id,               \* Net: Config.chain_id of config/eth.json
    isListening,            \* Net: what server.isListening() of bin/www returns
    netCalls,               \* Net: the invocations of its methods, in order
    callbacks,              \* Net: the invocations of their callbacks, in order
    script                  \* telemetry: per bootstrap script, its process state

vars == <<calls, wire, reply, GW_RPC_REQUEST_ERROR, error, logItem, thrown,
          decoded, chain_id, isListening, netCalls, callbacks, script>>

(***************************************************************************)
(* JavaScript strings.                                                     *)
(***************************************************************************)

\* String.prototype.startsWith
StartsWith(s, p) == Len(s) >= Len(p) /\ SubSeq(s, 1, Len(p)) = p

\* String.prototype.slice(from) and substring(from), from >= 0
Slice(s, from) == SubSeq(s, from + 1, Len(s))

\* The printable ASCII characters of codes 32..95 and 97..126 (a TLA+ string
\* cannot hold the grave accent, code 96, which the model leaves out).
PrintableLow ==
    <<" ", "!", "\"", "#", "$", "%", "&", "'", "(", ")", "*", "+", ",", "-", ".", "/",
      "0", "1", "2", "3", "4", "5", "6", "7", "8", "9", ":", ";", "<", "=", ">", "?",
      "@", "A", "B", "C", "D", "E", "F", "G", "H", "I", "J", "K", "L", "M", "N", "O",
      "P", "Q", "R", "S", "T", "U", "V", "W", "X", "Y", "Z", "[", "\\", "]", "^", "_">>

PrintableHigh ==
    <<"a", "b", "c", "d", "e", "f", "g", "h", "i", "j", "k", "l", "m", "n", "o",
      "p", "q", "r", "s", "t", "u", "v", "w", "x", "y", "z", "{", "|", "}", "~">>

PrintableCodes == (32..95) \cup (97..126)

CharOf(b) == IF b < 96 THEN PrintableLow[b - 31] ELSE PrintableHigh[b - 96]

CodeOf(c) == CHOOSE b \in PrintableCodes : CharOf(b) = c

(***************************************************************************)
(* Numbers.  A magnitude is four base-65536 limbs, least significant first.*)
(***************************************************************************)

Limb == 65536

ZeroMag == <<0, 0, 0, 0>>

Abs(n) == IF n < 0 THEN 0 - n ELSE n

\* a JavaScript number holding the (small) integer n
Num(n) == [t |-> "number", neg |-> n < 0,
           mag |-> <<Abs(n) % Limb, Abs(n) \div Limb, 0, 0>>]

Str(s) == [t |-> "string", s |-> s]

Obj(props) == [t |-> "object", props |-> props]

Undefined == [t |-> "undefined"]

Null == [t |-> "null"]

\* one step of the long division of a magnitude by ten
Div10(m) ==
    LET t4 == m[4]
        t3 == (t4 % 10) * Limb + m[3]
        t2 == (t3 % 10) * Limb + m[2]
        t1 == (t2 % 10) * Limb + m[1]
    IN  [q |-> <<t1 \div 10, t2 \div 10, t3 \div 10, t4 \div 10>>, r |-> t1 % 10]

RECURSIVE MagDigits(_)
MagDigits(m) ==
    IF m = ZeroMag THEN <<>>
    ELSE MagDigits(Div10(m).q) \o <<CharOf(CodeOf("0") + Div10(m).r)>>

\* Number.prototype.toString of an integer
NumberToString(n) ==
    (IF n.neg THEN <<"-">> ELSE <<>>)
        \o (IF n.mag = ZeroMag THEN <<"0">> ELSE MagDigits(n.mag))

(***************************************************************************)
(* Errors and completions.  A function of the program completes normally   *)
(* with a value or abruptly with a thrown error.                           *)
(***************************************************************************)

Return(v) == [type |-> "normal", value |-> v]

Throw(e) == [type |-> "throw", error |-> e]

\* new Error(message): a name and a message, no code
Error(message) == [name |-> "Error", message |-> message]

\* the TypeError the engine raises on a property read of undefined or null, or on
\* a call of something that is no function (its text is the engine's own)
TypeError == [name |-> "TypeError", message |-> <<"T", "y", "p", "e", "E", "r", "r", "o", "r">>]

\* the SyntaxError JSON.parse raises (its text is the engine's own)
SyntaxError == [name |-> "SyntaxError",
                message |-> <<"U", "n", "e", "x", "p", "e", "c", "t", "e", "d">>]

\* new RpcError(code, message) of ../error: an Error that also carries a code
RpcError(code, message) == [name |-> "RpcError", code |-> code, message |-> message]

(***************************************************************************)
(* Hex and buffers.                                                        *)
(***************************************************************************)

HexChars == <<"0", "1", "2", "3", "4", "5", "6", "7", "8", "9", "a", "b", "c", "d", "e", "f">>

HexUpper == <<"0", "1", "2", "3", "4", "5", "6", "7", "8", "9", "A", "B", "C", "D", "E", "F">>

\* the value of a hex digit of either case, -1 for any other character
HexVal(c) ==
    IF \E i \in 1..16 : HexChars[i] = c
    THEN (CHOOSE i \in 1..16 : HexChars[i] = c) - 1
    ELSE IF \E i \in 1..16 : HexUpper[i] = c
    THEN (CHOOSE i \in 1..16 : HexUpper[i] = c) - 1
    ELSE 0 - 1

\* Buffer.from(s, "hex"): the bytes of the leading pairs of hex digits; decoding
\* stops at the first pair that is not hex, and a trailing single digit is dropped
HexPairs(s) ==
    LET pairs  == Len(s) \div 2
        IsHex(k) == HexVal(s[2 * k - 1]) >= 0 /\ HexVal(s[2 * k]) >= 0
        count  == IF \A k \in 1..pairs : IsHex(k) THEN pairs
                  ELSE (CHOOSE k \in 1..pairs : ~IsHex(k) /\ \A j \in 1..(k - 1) : IsHex(j)) - 1
    IN  [k \in 1..count |-> 16 * HexVal(s[2 * k - 1]) + HexVal(s[2 * k])]

BufferFromHex(s) == HexPairs(s)

\* buf.toString("hex")
BufferToHex(buf) ==
    [i \in 1..(2 * Len(buf)) |->
        IF i % 2 = 1 THEN HexChars[(buf[(i + 1) \div 2] \div 16) + 1]
        ELSE HexChars[(buf[i \div 2] % 16) + 1]]

\* buf.slice(from, to)
BufferSlice(buf, from, to) == SubSeq(buf, from + 1, to)

\* buf.readUInt32LE(offset): first + b1 * 2^8 + b2 * 2^16 + last * 2^24
ReadUInt32LE(buf, offset) ==
    [t |-> "number", neg |-> FALSE,
     mag |-> <<buf[offset + 1] + buf[offset + 2] * 256,
               buf[offset + 3] + buf[offset + 4] * 256, 0, 0>>]

\* a variant of ReadBigUInt64LE that reads the bytes most significant first
ReadBigUInt64BE(buf, offset) ==
    [t |-> "bigint", neg |-> FALSE,
     mag |-> <<buf[offset + 8] + buf[offset + 7] * 256,
               buf[offset + 6] + buf[offset + 5] * 256,
               buf[offset + 4] + buf[offset + 3] * 256,
               buf[offset + 2] + buf[offset + 1] * 256>>]

\* buf.readBigUInt64LE(offset): BigInt(lo) + (BigInt(hi) << 32n), lo and hi the
\* little-endian 32-bit halves
ReadBigUInt64LE(buf, offset) ==
    [t |-> "bigint", neg |-> FALSE,
     mag |-> <<buf[offset + 1] + buf[offset + 2] * 256,
               buf[offset + 3] + buf[offset + 4] * 256,
               buf[offset + 5] + buf[offset + 6] * 256,
               buf[offset + 7] + buf[offset + 8] * 256>>]

(***************************************************************************)
(* JSON.                                                                   *)
(***************************************************************************)

\* a string in JSON text: quoted, with the quote and the backslash escaped
RECURSIVE Escaped(_)
Escaped(s) ==
    IF Len(s) = 0 THEN <<>>
    ELSE IF Len(s) = 1 THEN (IF s[1] \in {"\"", "\\"} THEN <<"\\", s[1]>> ELSE s)
    ELSE Escaped(SubSeq(s, 1, Len(s) \div 2)) \o Escaped(SubSeq(s, Len(s) \div 2 + 1, Len(s)))

Quote(s) == <<"\"">> \o Escaped(s) \o <<"\"">>

\* JSON.stringify of a number, a string, null, or an object of such values, the
\* object's properties in insertion order
RECURSIVE JSONStringify(_)
RECURSIVE Members(_, _)
JSONStringify(v) ==
    CASE v.t = "number" -> NumberToString(v)
      [] v.t = "string" -> Quote(v.s)
      [] v.t = "null"   -> <<"n", "u", "l", "l">>
      [] v.t = "object" -> <<"{">> \o Members(v.props, 1) \o <<"}">>

Members(props, i) ==
    IF i > Len(props) THEN <<>>
    ELSE (IF i > 1 THEN <<",">> ELSE <<>>)
            \o Quote(props[i][1]) \o <<":">> \o JSONStringify(props[i][2])
            \o Members(props, i + 1)

\* obj[key] of a value that is not undefined or null: a primitive has no own
\* property of these names
Get(v, key) ==
    IF v.t = "object" /\ \E i \in 1..Len(v.props) : v.props[i][1] = key
    THEN v.props[CHOOSE i \in 1..Len(v.props) : v.props[i][1] = key][2]
    ELSE Undefined

Nullish(v) == v.t \in {"undefined", "null"}

(***************************************************************************)
(* ABI decoding of one string (web3-eth-abi's decodeParameter).            *)
(***************************************************************************)

WordBytes == 32

\* the unsigned big-endian integer of the 32-byte word at offset, or -1 when it
\* does not fit 16 bits (it then lies beyond any data of the model)
ReadWord(data, offset) ==
    IF \E i \in 1..(WordBytes - 2) : data[offset + i] # 0 THEN 0 - 1
    ELSE data[offset + WordBytes - 1] * 256 + data[offset + WordBytes]

\* bytes.replace(/0x/i, ""): the text without its first "0x" or "0X"
Remove0x(s) ==
    LET At(i) == s[i] = "0" /\ s[i + 1] \in {"x", "X"}
    IN  IF \E i \in 1..(Len(s) - 1) : At(i)
        THEN LET k == CHOOSE i \in 1..(Len(s) - 1) : At(i) /\ \A j \in 1..(i - 1) : ~At(j)
             IN  SubSeq(s, 1, k - 1) \o SubSeq(s, k + 2, Len(s))
        ELSE s

DecodeFailure == Throw(Error(<<"d", "e", "c", "o", "d", "e">>))

\* abi.decodeParameter("string", bytes): fails on empty input, on text that is
\* not an even number of hex digits, and on data too short for the head word,
\* the length word or the string's bytes; else the string at the head's offset
DecodeParameterString(bytes) ==
    IF bytes = <<>> \/ bytes = <<"0", "x">> \/ bytes = <<"0", "X">> THEN DecodeFailure
    ELSE LET hex  == Remove0x(bytes)
             data == BufferFromHex(hex)
         IN  IF Len(hex) % 2 # 0 \/ 2 * Len(data) # Len(hex) THEN DecodeFailure
             ELSE IF Len(data) < WordBytes THEN DecodeFailure
             ELSE LET offset == ReadWord(data, 0)
                  IN  IF offset < 0 \/ offset + WordBytes > Len(data) THEN DecodeFailure
                      ELSE LET length == ReadWord(data, offset)
                               start  == offset + WordBytes
                           IN  IF length < 0 \/ start + length > Len(data)
                               THEN DecodeFailure
                               ELSE Return(Str([i \in 1..length |-> CharOf(data[start + i])]))

(***************************************************************************)
(* parsePolyjuiceSystemLog and parseError.                                 *)
(***************************************************************************)

K_data == <<"d", "a", "t", "a">>

K_code == <<"c", "o", "d", "e">>

K_last_log == <<"l", "a", "s", "t", "_", "l", "o", "g">>

K_return_data == <<"r", "e", "t", "u", "r", "n", "_", "d", "a", "t", "a">>

K_status_code == <<"s", "t", "a", "t", "u", "s", "_", "c", "o", "d", "e">>

K_status_reason == <<"s", "t", "a", "t", "u", "s", "_", "r", "e", "a", "s", "o", "n">>

K_message == <<"m", "e", "s", "s", "a", "g", "e">>

\* `invalid system log raw data length: ${buf.length}`
LengthMessage(n) ==
    <<"i", "n", "v", "a", "l", "i", "d", " ", "s", "y", "s", "t", "e", "m", " ",
      "l", "o", "g", " ", "r", "a", "w", " ", "d", "a", "t", "a", " ",
      "l", "e", "n", "g", "t", "h", ":", " ">> \o NumberToString(Num(n))

\* a variant of SystemLogLength without the last four bytes
SystemLogLengthShort == 8 + 8 + 16 + 4

\* the length the decoder accepts
SystemLogLength == 8 + 8 + 16 + 4 + 4

parsePolyjuiceSystemLog(item) ==
    IF Nullish(item) \/ Get(item, K_data).t # "string" THEN Throw(TypeError)
    ELSE LET buf == BufferFromHex(Slice(Get(item, K_data).s, 2))
         IN  IF Len(buf) # SystemLogLength
             THEN Throw(Error(LengthMessage(Len(buf))))
             ELSE Return([gasUsed           |-> ReadBigUInt64LE(buf, 0),
                          cumulativeGasUsed |-> ReadBigUInt64LE(buf, 8),
                          createdAddress    |-> <<"0", "x">> \o BufferToHex(BufferSlice(buf, 16, 32)),
                          statusCode        |-> ReadUInt32LE(buf, 32)])

prefix ==
    <<"J", "S", "O", "N", "R", "P", "C", "E", "r", "r", "o", "r", ":", " ",
      "s", "e", "r", "v", "e", "r", " ", "e", "r", "r", "o", "r", " ">>

connectionPrefix == <<"r", "e", "q", "u", "e", "s", "t", " ", "t", "o">>

\* a variant of ReturnDataOffset that skips "0x" and not the selector
ReturnDataOffsetNoSelector == Len(<<"0", "x">>)

\* the offset into return_data at which the ABI data starts
ReturnDataOffset == 10

(***************************************************************************)
(* The inputs of the translator and of the decoder.                        *)
(***************************************************************************)

HexOf(buf) == <<"0", "x">> \o BufferToHex(buf)

\* system logs of the accepted length
LogZero == [i \in 1..40 |-> 0]

LogCount == [i \in 1..40 |-> i]

LogOnes == [i \in 1..40 |-> 255]

LogHigh == [i \in 1..40 |-> IF i \in {8, 16, 17, 36} THEN 128 ELSE 0]

\* LogCount with other bytes at offsets 36..39
LogTail == [i \in 1..40 |-> IF i > 36 THEN 200 + i ELSE i]

ValidLogs == {LogZero, LogCount, LogOnes, LogHigh, LogTail}

\* the lengths the decoder must refuse
BadLengths == {0, 1, 39, 41, 100}

LogOfLength(n) == [i \in 1..n |-> (7 * i) % 256]

LogItemOf(text) == Obj(<< <<K_data, Str(text)>> >>)

\* LogItems whose data is "0x" and the hex of a buffer
HexLogItems ==
    {[item |-> LogItemOf(HexOf(b)), bytes |-> b] :
        b \in ValidLogs \cup {LogOfLength(n) : n \in BadLengths}}

\* other LogItems: upper-case hex, a trailing single digit, no "0x" in front (the
\* first byte is sliced off), a character that is not hex, data that is no
\* string, no data, no LogItem
OddLogItems ==
    { LogItemOf(<<"0", "X">> \o [i \in 1..80 |-> "F"]),
      LogItemOf(HexOf(LogCount) \o <<"7">>),
      LogItemOf(BufferToHex(LogOfLength(41))),
      LogItemOf(BufferToHex(LogCount)),
      LogItemOf(<<"0", "x">> \o [i \in 1..80 |-> IF i = 9 THEN "g" ELSE "0"]),
      LogItemOf(<<>>),
      Obj(<< <<K_data, Num(7)>> >>),
      Obj(<<>>),
      Undefined,
      Null }

LogItems == {h.item : h \in HexLogItems} \cup OddLogItems

\* ABI encoding of one string: the head word (offset 32), the length word, the
\* bytes padded with zeros to whole words
Word(n) == [i \in 1..WordBytes |->
              IF i = WordBytes THEN n % 256
              ELSE IF i = WordBytes - 1 THEN n \div 256 ELSE 0]

AbiEncodeString(str) ==
    LET padded == ((Len(str) + WordBytes - 1) \div WordBytes) * WordBytes
    IN  Word(WordBytes) \o Word(Len(str))
            \o [i \in 1..padded |-> IF i <= Len(str) THEN CodeOf(str[i]) ELSE 0]

\* the selector of Error(string)
Selector == <<"0", "8", "c", "3", "7", "9", "a", "0">>

ReturnDataOf(str) == <<"0", "x">> \o Selector \o BufferToHex(AbiEncodeString(str))

Reasons ==
    { <<>>, <<"n", "o">>, <<"a", "\"", "b", "\\">>,
      [i \in 1..(WordBytes + 1) |-> "z"] }

\* what the upstream node sends for a reverted execution
RevertPayload(code, logText, returnData) ==
    Obj(<< <<K_code, code>>,
           <<K_data, Obj(<< <<K_last_log, LogItemOf(logText)>>,
                            <<K_return_data, returnData>> >>)>> >>)

\* the well-formed reverts: an upstream code, a system log, a reason
RevertCases ==
    {[code |-> c, log |-> l, reason |-> r] :
        c \in {5, 0 - 32000}, l \in {LogZero, LogCount, LogHigh}, r \in {<<>>, <<"n", "o">>}}
    \cup {[code |-> 5, log |-> LogOnes, reason |-> r] : r \in Reasons}

RevertPayloadOf(case) ==
    RevertPayload(Num(case.code), HexOf(case.log), Str(ReturnDataOf(case.reason)))

\* payloads that start like a revert and are not one
BrokenPayloads ==
    { Null,
      Num(7),
      Obj(<< <<K_code, Num(0 - 32601)>>, <<K_message, Str(<<"n", "o">>)>> >>),
      Obj(<< <<K_code, Num(5)>>, <<K_data, Obj(<<>>)>> >>),
      Obj(<< <<K_code, Num(5)>>, <<K_data, Null>> >>),
      RevertPayload(Num(5), HexOf(LogOfLength(39)), Str(ReturnDataOf(<<"n", "o">>))),
      RevertPayload(Num(5), HexOf(LogOfLength(41)), Str(ReturnDataOf(<<"n", "o">>))),
      RevertPayload(Num(5), <<"0", "x">>, Str(ReturnDataOf(<<"n", "o">>))),
      Obj(<< <<K_code, Num(5)>>,
             <<K_data, Obj(<< <<K_last_log, LogItemOf(HexOf(LogZero))>> >>)>> >>),
      RevertPayload(Num(5), HexOf(LogZero), Num(7)),
      RevertPayload(Num(5), HexOf(LogZero), Str(<<"0", "x">>)),
      RevertPayload(Num(5), HexOf(LogZero), Str(<<"0", "x">> \o Selector)),
      RevertPayload(Num(5), HexOf(LogZero), Str(<<"0", "x">> \o Selector \o <<"0", "0">>)),
      RevertPayload(Num(5), HexOf(LogZero), Str(<<"0", "x">> \o Selector \o <<"z", "z">>)),
      RevertPayload(Num(5), HexOf(LogZero),
                    Str(<<"0", "x">> \o Selector \o BufferToHex(Word(100) \o Word(0)))),
      RevertPayload(Num(5), HexOf(LogZero),
                    Str(<<"0", "x">> \o Selector \o BufferToHex(Word(WordBytes) \o Word(9)))) }

\* a revert whose payload has no code
CodelessPayload ==
    Obj(<< <<K_data, Obj(<< <<K_last_log, LogItemOf(HexOf(LogCount))>>,
                            <<K_return_data, Str(ReturnDataOf(<<"n", "o">>))>> >>)>> >>)

\* {status_code, status_reason}
Receipt(statusCode, statusReason) ==
    Obj(<< <<K_status_code, statusCode>>, <<K_status_reason, Str(statusReason)>> >>)

\* the number that n bytes, least significant first, stand for
LittleEndian(bytes) ==
    [k \in 1..4 |-> (IF 2 * k - 1 <= Len(bytes) THEN bytes[2 * k - 1] ELSE 0)
                        + 256 * (IF 2 * k <= Len(bytes) THEN bytes[2 * k] ELSE 0)]

\* the status code a system log carries at offsets 32..35
StatusCodeOf(log) == [t |-> "number", neg |-> FALSE, mag |-> LittleEndian(SubSeq(log, 33, 36))]

\* every value whose JSON text occurs in the model
JsonUniverse ==
    {RevertPayloadOf(c) : c \in RevertCases} \cup BrokenPayloads \cup {CodelessPayload}
        \cup {Receipt(StatusCodeOf(l), r) : l \in ValidLogs, r \in Reasons}

JsonText == [v \in JsonUniverse |-> JSONStringify(v)]

\* text after the prefix that is no JSON
MalformedJson ==
    { <<>>, <<"{">>, <<"o", "o", "p", "s">>,
      <<"{", "\"", "c", "o", "d", "e", "\"", ":", "5", ",", "}">> }

\* JSON.parse: the value whose text this is, a SyntaxError for the texts of
\* MalformedJson (every text of the model is one or the other)
JSONParse(text) ==
    IF \E v \in JsonUniverse : JsonText[v] = text
    THEN Return(CHOOSE v \in JsonUniverse : JsonText[v] = text)
    ELSE Throw(SyntaxError)

\* parseError, the branch of a message that starts with the prefix
revertBranch(message) ==
    LET parsed == JSONParse(Slice(message, Len(prefix)))
    IN  IF parsed.type = "throw" THEN parsed
        ELSE LET err == parsed.value
             IN  IF Nullish(err) \/ Nullish(Get(err, K_data)) THEN Throw(TypeError)
                 ELSE LET polyjuiceSystemLog ==
                              parsePolyjuiceSystemLog(Get(Get(err, K_data), K_last_log))
                          returnData == Get(Get(err, K_data), K_return_data)
                      IN  IF polyjuiceSystemLog.type = "throw" THEN polyjuiceSystemLog
                          ELSE IF returnData.t # "string" THEN Throw(TypeError)
                          ELSE LET statusReason ==
                                       DecodeParameterString(Slice(returnData.s, ReturnDataOffset))
                               IN  IF statusReason.type = "throw" THEN statusReason
                                   ELSE Throw(RpcError(
                                            Get(err, K_code),
                                            JSONStringify(Receipt(
                                                polyjuiceSystemLog.value.statusCode,
                                                statusReason.value.s))))

\* a variant of connectionBranch that raises an RpcError
connectionBranchWithCode(message) == Throw(RpcError(Num(GW_RPC_REQUEST_ERROR), message))

\* parseError, the connection error
connectionBranch(message) == Throw(Error(message))

\* a variant of genericBranch that returns and does not throw
genericBranchReturns(message) == Return(Undefined)

\* parseError, its last statement
genericBranch(message) == Throw(RpcError(Num(GW_RPC_REQUEST_ERROR), message))

\* a variant of BranchOf without the test for a connection error
BranchOfNoConnection(message) ==
    IF StartsWith(message, prefix) THEN "revert" ELSE "generic"

\* which of its three branches parseError takes
BranchOf(message) ==
    IF StartsWith(message, prefix) THEN "revert"
    ELSE IF StartsWith(message, connectionPrefix) THEN "connection"
    ELSE "generic"

parseError(err) ==
    LET message == err.message
    IN  CASE BranchOf(message) = "revert"     -> revertBranch(message)
          [] BranchOf(message) = "connection" -> connectionBranch(message)
          [] BranchOf(message) = "generic"    -> genericBranch(err.message)

\* the messages of the errors the outbound call is rejected with
RevertMessage(case) == prefix \o JsonText[RevertPayloadOf(case)]

RevertMessages == {RevertMessage(c) : c \in RevertCases}

BrokenMessages ==
    {prefix \o JsonText[p] : p \in BrokenPayloads \cup {CodelessPayload}}
        \cup {prefix \o t : t \in MalformedJson}

ConnectionMessages ==
    { connectionPrefix,
      connectionPrefix \o <<" ", "h", "t", "t", "p", ":", "/", "/", "g", "w", " ",
                            "f", "a", "i", "l", "e", "d">>,
      connectionPrefix \o <<" ">> \o prefix \o <<"{", "}">> }

GenericMessages ==
    { <<>>,
      <<"b", "o", "o", "m">>,
      SubSeq(prefix, 1, Len(prefix) - 1),
      SubSeq(connectionPrefix, 1, Len(connectionPrefix) - 1),
      <<" ">> \o connectionPrefix,
      <<" ">> \o prefix \o <<"{", "}">>,
      <<"R">> \o Slice(connectionPrefix, 1) }

Messages == RevertMessages \cup BrokenMessages \cup ConnectionMessages \cup GenericMessages

CaughtErrors == {Error(m) : m \in Messages}

\* the values ../error-code may give GW_RPC_REQUEST_ERROR
RequestErrorCodes == {0 - 32098, 5}

Pending == [type |-> "pending"]

(***************************************************************************)
(* The translator and the decoder, each run once on an input.              *)
(***************************************************************************)

GwIdle == [pc |-> "idle"]

InitTranslate ==
    /\ GW_RPC_REQUEST_ERROR \in RequestErrorCodes
    /\ error \in CaughtErrors
    /\ logItem \in LogItems
    /\ thrown = Pending
    /\ decoded = Pending
    /\ calls = <<>> /\ wire = <<>> /\ reply = <<>>
    /\ chain_id = 0 /\ isListening = FALSE /\ netCalls = <<>> /\ callbacks = <<>>
    /\ script = <<>>

Translate ==
    /\ thrown = Pending
    /\ thrown' = parseError(error)
    /\ UNCHANGED <<calls, wire, reply, GW_RPC_REQUEST_ERROR, error, logItem, decoded,
                   chain_id, isListening, netCalls, callbacks, script>>

Decode ==
    /\ decoded = Pending
    /\ decoded' = parsePolyjuiceSystemLog(logItem)
    /\ UNCHANGED <<calls, wire, reply, GW_RPC_REQUEST_ERROR, error, logItem, thrown,
                   chain_id, isListening, netCalls, callbacks, script>>

NextTranslate == Translate \/ Decode

SpecTranslate == InitTranslate /\ [][NextTranslate]_vars

(***************************************************************************)
(* Gw: the forwarding methods.  Each is `try { return await                *)
(* this.rpc.gw_<name>(...args) } catch (error) { parseError(error) }`.     *)
(* The constructor wraps all but get_script_hash_by_short_address in       *)
(* middleware(method, 0) of ../validator, which asks for no parameter and  *)
(* hands the argument list on as it is.                                    *)
(***************************************************************************)

\* a variant of GwMethods in which get_block calls the method of get_block_hash
GwMethodsCopied ==
    << [name |-> "ping", rpc |-> "gw_ping"],
       [name |-> "get_tip_block_hash", rpc |-> "gw_get_tip_block_hash"],
       [name |-> "get_block_hash", rpc |-> "gw_get_block_hash"],
       [name |-> "get_block", rpc |-> "gw_get_block_hash"],
       [name |-> "get_block_by_number", rpc |-> "gw_get_block_by_number"],
       [name |-> "get_balance", rpc |-> "gw_get_balance"],
       [name |-> "get_storage_at", rpc |-> "gw_get_storage_at"],
       [name |-> "get_account_id_by_script_hash", rpc |-> "gw_get_account_id_by_script_hash"],
       [name |-> "get_nonce", rpc |-> "gw_get_nonce"],
       [name |-> "get_script", rpc |-> "gw_get_script"],
       [name |-> "get_script_hash", rpc |-> "gw_get_script_hash"],
       [name |-> "get_data", rpc |-> "gw_get_data"],
       [name |-> "get_transaction_receipt", rpc |-> "gw_get_transaction_receipt"],
       [name |-> "get_transaction", rpc |-> "gw_get_transaction"],
       [name |-> "execute_l2transaction", rpc |-> "gw_execute_l2transaction"],
       [name |-> "execute_raw_l2transaction", rpc |-> "gw_execute_raw_l2transaction"],
       [name |-> "submit_l2transaction", rpc |-> "gw_submit_l2transaction"],
       [name |-> "submit_withdrawal_request", rpc |-> "gw_submit_withdrawal_request"],
       [name |-> "get_script_hash_by_short_address",
        rpc |-> "gw_get_script_hash_by_short_address"] >>

\* the methods of Gw, each with the method of this.rpc its body calls
GwMethods ==
    << [name |-> "ping", rpc |-> "gw_ping"],
       [name |-> "get_tip_block_hash", rpc |-> "gw_get_tip_block_hash"],
       [name |-> "get_block_hash", rpc |-> "gw_get_block_hash"],
       [name |-> "get_block", rpc |-> "gw_get_block"],
       [name |-> "get_block_by_number", rpc |-> "gw_get_block_by_number"],
       [name |-> "get_balance", rpc |-> "gw_get_balance"],
       [name |-> "get_storage_at", rpc |-> "gw_get_storage_at"],
       [name |-> "get_account_id_by_script_hash", rpc |-> "gw_get_account_id_by_script_hash"],
       [name |-> "get_nonce", rpc |-> "gw_get_nonce"],
       [name |-> "get_script", rpc |-> "gw_get_script"],
       [name |-> "get_script_hash", rpc |-> "gw_get_script_hash"],
       [name |-> "get_data", rpc |-> "gw_get_data"],
       [name |-> "get_transaction_receipt", rpc |-> "gw_get_transaction_receipt"],
       [name |-> "get_transaction", rpc |-> "gw_get_transaction"],
       [name |-> "execute_l2transaction", rpc |-> "gw_execute_l2transaction"],
       [name |-> "execute_raw_l2transaction", rpc |-> "gw_execute_raw_l2transaction"],
       [name |-> "submit_l2transaction", rpc |-> "gw_submit_l2transaction"],
       [name |-> "submit_withdrawal_request", rpc |-> "gw_submit_withdrawal_request"],
       [name |-> "get_script_hash_by_short_address",
        rpc |-> "gw_get_script_hash_by_short_address"] >>

MethodNames == {GwMethods[i].name : i \in 1..Len(GwMethods)}

\* the method of this.rpc that the body of method `name` calls
rpcMethodOf(name) == GwMethods[CHOOSE i \in 1..Len(GwMethods) : GwMethods[i].name = name].rpc

\* the argument lists of the model
ArgLists == { <<>>, <<"0x2", "0x1">> }

\* the results of the upstream node
Results == { Null, Str(<<"0", "x", "1">>) }

NoReply == [state |-> "none"]

\* a variant of settlementOf that reads the outbound call that settled, of the
\* lowest invocation, as a field shared by the invocations would
settlementOfAny(c) ==
    LET IsSettled(d) == reply[d].state \in {"resolved", "rejected"}
    IN  IF \E d \in 1..Len(reply) : IsSettled(d)
        THEN reply[CHOOSE d \in 1..Len(reply) :
                     IsSettled(d) /\ \A e \in 1..(d - 1) : ~IsSettled(e)]
        ELSE reply[c]

\* what `await this.rpc.gw_<name>(...args)` of invocation c settles with
settlementOf(c) == reply[c]

\* the method is called: it calls this.rpc.gw_<name>(...args) and awaits the promise
Invoke(c, name, args) ==
    /\ calls[c].pc = "idle"
    /\ calls' = [calls EXCEPT ![c] = [pc |-> "awaiting", method |-> name, args |-> args]]
    /\ wire' = [wire EXCEPT ![c] = Append(@, [method |-> rpcMethodOf(name), params |-> args])]
    /\ reply' = [reply EXCEPT ![c] = [state |-> "pending"]]
    /\ UNCHANGED <<GW_RPC_REQUEST_ERROR, error, logItem, thrown, decoded,
                   chain_id, isListening, netCalls, callbacks, script>>

\* the upstream node answers the outbound call of invocation c with a result
Resolve(c, result) ==
    /\ reply[c].state = "pending"
    /\ reply' = [reply EXCEPT ![c] = [state |-> "resolved", value |-> result]]
    /\ UNCHANGED <<calls, wire, GW_RPC_REQUEST_ERROR, error, logItem, thrown, decoded,
                   chain_id, isListening, netCalls, callbacks, script>>

\* the outbound call of invocation c fails
Reject(c, err) ==
    /\ reply[c].state = "pending"
    /\ reply' = [reply EXCEPT ![c] = [state |-> "rejected", error |-> err]]
    /\ UNCHANGED <<calls, wire, GW_RPC_REQUEST_ERROR, error, logItem, thrown, decoded,
                   chain_id, isListening, netCalls, callbacks, script>>

\* the awaited promise has settled and the method runs on: `return result`, or the
\* catch clause, after which the method returns undefined unless parseError threw
Resume(c) ==
    /\ calls[c].pc = "awaiting"
    /\ settlementOf(c).state \in {"resolved", "rejected"}
    /\ LET s == settlementOf(c)
           done == parseError(s.error)
       IN  calls' = [calls EXCEPT ![c] =
                IF s.state = "resolved"
                THEN [pc |-> "returned", method |-> @.method, args |-> @.args,
                      value |-> s.value]
                ELSE IF done.type = "throw"
                THEN [pc |-> "thrown", method |-> @.method, args |-> @.args,
                      error |-> done.error]
                ELSE [pc |-> "returned", method |-> @.method, args |-> @.args,
                      value |-> Undefined]]
    /\ UNCHANGED <<wire, reply, GW_RPC_REQUEST_ERROR, error, logItem, thrown, decoded,
                   chain_id, isListening, netCalls, callbacks, script>>

InitNoGw ==
    /\ calls = <<>>
    /\ wire = <<>>
    /\ reply = <<>>

InitNoTranslate ==
    /\ error = Error(<<>>)
    /\ logItem = Undefined
    /\ thrown = Pending
    /\ decoded = Pending

InitNoNet ==
    /\ chain_id = 0
    /\ isListening = FALSE
    /\ netCalls = <<>>
    /\ callbacks = <<>>

InitNoTelemetry == script = <<>>

\* one invocation, of any method, with any reply
InitForward ==
    /\ calls = <<GwIdle>>
    /\ wire = << <<>> >>
    /\ reply = <<NoReply>>
    /\ GW_RPC_REQUEST_ERROR \in RequestErrorCodes
    /\ InitNoTranslate /\ InitNoNet /\ InitNoTelemetry

NextForward ==
    \/ \E c \in 1..Len(calls), name \in MethodNames, args \in ArgLists : Invoke(c, name, args)
    \/ \E c \in 1..Len(calls), result \in Results : Resolve(c, result)
    \/ \E c \in 1..Len(calls), err \in CaughtErrors : Reject(c, err)
    \/ \E c \in 1..Len(calls) : Resume(c)

SpecForward == InitForward /\ [][NextForward]_vars

\* the number of invocations in flight together
MaxCalls == 2

\* the methods and the errors of the concurrent invocations
ConcurrentMethods == {"ping", "get_transaction"}

ConcurrentErrors ==
    { Error(RevertMessage([code |-> 5, log |-> LogCount, reason |-> <<"n", "o">>])),
      Error(connectionPrefix),
      Error(<<"b", "o", "o", "m">>) }

InitConcurrent ==
    /\ calls = [c \in 1..MaxCalls |-> GwIdle]
    /\ wire = [c \in 1..MaxCalls |-> <<>>]
    /\ reply = [c \in 1..MaxCalls |-> NoReply]
    /\ GW_RPC_REQUEST_ERROR \in RequestErrorCodes
    /\ InitNoTranslate /\ InitNoNet /\ InitNoTelemetry

NextConcurrent ==
    \/ \E c \in 1..Len(calls), name \in ConcurrentMethods, args \in ArgLists :
            Invoke(c, name, args)
    \/ \E c \in 1..Len(calls), result \in Results : Resolve(c, result)
    \/ \E c \in 1..Len(calls), err \in ConcurrentErrors : Reject(c, err)
    \/ \E c \in 1..Len(calls) : Resume(c)

SpecConcurrent == InitConcurrent /\ [][NextConcurrent]_vars

(***************************************************************************)
(* Net: version, peerCount, listening.                                     *)
(***************************************************************************)

\* the number of invocations of Net's methods
MaxNetCalls == 3

\* the chain ids config/eth.json may hold
ChainIds == {3, 71393}

\* a variant of peerCount that reports the number of its arguments
peerCountOfArgs(args) ==
    /\ Len(netCalls) < MaxNetCalls
    /\ netCalls' = Append(netCalls, [method |-> "peerCount", args |-> args])
    /\ callbacks' = Append(callbacks, [method |-> "peerCount", err |-> Null, value |-> Len(args)])
    /\ UNCHANGED <<calls, wire, reply, GW_RPC_REQUEST_ERROR, error, logItem, thrown,
                   decoded, chain_id, isListening, script>>

\* version(args, callback) { callback(null, Config.chain_id) }
version(args) ==
    /\ Len(netCalls) < MaxNetCalls
    /\ netCalls' = Append(netCalls, [method |-> "version", args |-> args])
    /\ callbacks' = Append(callbacks, [method |-> "version", err |-> Null, value |-> chain_id])
    /\ UNCHANGED <<calls, wire, reply, GW_RPC_REQUEST_ERROR, error, logItem, thrown,
                   decoded, chain_id, isListening, script>>

\* peerCount(args, callback) { callback(null, 0) }
peerCount(args) ==
    /\ Len(netCalls) < MaxNetCalls
    /\ netCalls' = Append(netCalls, [method |-> "peerCount", args |-> args])
    /\ callbacks' = Append(callbacks, [method |-> "peerCount", err |-> Null, value |-> 0])
    /\ UNCHANGED <<calls, wire, reply, GW_RPC_REQUEST_ERROR, error, logItem, thrown,
                   decoded, chain_id, isListening, script>>

\* listening(args, callback) { callback(null, server.isListening()) }
listening(args) ==
    /\ Len(netCalls) < MaxNetCalls
    /\ netCalls' = Append(netCalls, [method |-> "listening", args |-> args])
    /\ callbacks' = Append(callbacks, [method |-> "listening", err |-> Null,
                                       value |-> isListening])
    /\ UNCHANGED <<calls, wire, reply, GW_RPC_REQUEST_ERROR, error, logItem, thrown,
                   decoded, chain_id, isListening, script>>

\* the hosting server starts or stops listening
ServerToggles ==
    /\ isListening' = ~isListening
    /\ UNCHANGED <<calls, wire, reply, GW_RPC_REQUEST_ERROR, error, logItem, thrown,
                   decoded, chain_id, netCalls, callbacks, script>>

InitNet ==
    /\ chain_id \in ChainIds
    /\ isListening \in BOOLEAN
    /\ netCalls = <<>>
    /\ callbacks = <<>>
    /\ GW_RPC_REQUEST_ERROR \in RequestErrorCodes
    /\ InitNoGw /\ InitNoTranslate /\ InitNoTelemetry

NextNet ==
    \/ \E args \in ArgLists : version(args)
    \/ \E args \in ArgLists : peerCount(args)
    \/ \E args \in ArgLists : listening(args)
    \/ ServerToggles

SpecNet == InitNet /\ [][NextNet]_vars

(***************************************************************************)
(* The telemetry bootstrap scripts.  A script's body runs in one piece     *)
(* when the module is loaded; the callbacks of its promises and its signal *)
(* handler run later.                                                      *)
(***************************************************************************)

\* trace.js, opentelemetry.js, opentelemetry_trace.js, part_000 lines 272-294
Scripts == <<"trace.js", "opentelemetry.js", "opentelemetry_trace.js", "part_000">>

\* opentelemetry_trace.js reads `exporter` on its line 14 (and `options` and
\* WinstonInstrumentation further down), which no line declares: in strict mode
\* the read throws a ReferenceError and the rest of the body does not run
LoadThrows(s) == Scripts[s] = "opentelemetry_trace.js"

\* the number of SIGTERMs sent to one process
MaxSignals == 2

NotLoaded ==
    [pc |-> "loading", handlers |-> 0, start |-> "none", signals |-> 0,
     shutdownCalls |-> 0, shutdown |-> "none", exitCode |-> "none"]

\* the module body: sdk.start() with its then and catch, process.on("SIGTERM", ...);
\* an exception it does not catch ends the process with code 1
Load(s) ==
    /\ script[s].pc = "loading"
    /\ script' = [script EXCEPT ![s] =
          IF LoadThrows(s)
          THEN [@ EXCEPT !.pc = "exited", !.exitCode = 1]
          ELSE [@ EXCEPT !.pc = "running", !.start = "pending", !.handlers = @ + 1]]
    /\ UNCHANGED <<calls, wire, reply, GW_RPC_REQUEST_ERROR, error, logItem, thrown,
                   decoded, chain_id, isListening, netCalls, callbacks>>

\* the promise of sdk.start() settles; its then or its catch logs
StartSettles(s, outcome) ==
    /\ script[s].pc = "running"
    /\ script[s].start = "pending"
    /\ script' = [script EXCEPT ![s].start = outcome]
    /\ UNCHANGED <<calls, wire, reply, GW_RPC_REQUEST_ERROR, error, logItem, thrown,
                   decoded, chain_id, isListening, netCalls, callbacks>>

\* SIGTERM reaches the process: each handler calls sdk.shutdown(), whose promise
\* is one per sdk; with no handler the signal ends the process
Sigterm(s) ==
    /\ script[s].pc = "running"
    /\ script[s].signals < MaxSignals
    /\ script' = [script EXCEPT ![s] =
          IF @.handlers = 0
          THEN [@ EXCEPT !.signals = @ + 1, !.pc = "killed"]
          ELSE [@ EXCEPT !.signals = @ + 1,
                         !.shutdownCalls = @ + script[s].handlers,
                         !.shutdown = IF @ = "none" THEN "pending" ELSE @]]
    /\ UNCHANGED <<calls, wire, reply, GW_RPC_REQUEST_ERROR, error, logItem, thrown,
                   decoded, chain_id, isListening, netCalls, callbacks>>

\* the promise of sdk.shutdown() settles
ShutdownSettles(s, outcome) ==
    /\ script[s].pc = "running"
    /\ script[s].shutdown = "pending"
    /\ script' = [script EXCEPT ![s].shutdown = outcome]
    /\ UNCHANGED <<calls, wire, reply, GW_RPC_REQUEST_ERROR, error, logItem, thrown,
                   decoded, chain_id, isListening, netCalls, callbacks>>

\* then or catch has logged, and finally runs process.exit(0)
Finally(s) ==
    /\ script[s].pc = "running"
    /\ script[s].shutdown \in {"resolved", "rejected"}
    /\ script' = [script EXCEPT ![s].pc = "exited", ![s].exitCode = 0]
    /\ UNCHANGED <<calls, wire, reply, GW_RPC_REQUEST_ERROR, error, logItem, thrown,
                   decoded, chain_id, isListening, netCalls, callbacks>>

InitTelemetry ==
    /\ script = [s \in 1..Len(Scripts) |-> NotLoaded]
    /\ GW_RPC_REQUEST_ERROR \in RequestErrorCodes
    /\ InitNoGw /\ InitNoTranslate /\ InitNoNet

NextTelemetry ==
    \/ \E s \in 1..Len(Scripts) : Load(s)
    \/ \E s \in 1..Len(Scripts), outcome \in {"resolved", "rejected"} : StartSettles(s, outcome)
    \/ \E s \in 1..Len(Scripts) : Sigterm(s)
    \/ \E s \in 1..Len(Scripts), outcome \in {"resolved", "rejected"} :
            ShutdownSettles(s, outcome)
    \/ \E s \in 1..Len(Scripts) : Finally(s)

\* a promise that is pending settles, and a callback that is due runs
SpecTelemetry ==
    /\ InitTelemetry
    /\ [][NextTelemetry]_vars
    /\ \A s \in 1..Len(Scripts) :
          /\ WF_vars(Load(s))
          /\ WF_vars(\E outcome \in {"resolved", "rejected"} : ShutdownSettles(s, outcome))
          /\ WF_vars(Finally(s))

(***************************************************************************)
(* Properties of the translator and the decoder (SpecTranslate).           *)
(***************************************************************************)

IsString(m) == m \in Seq(STRING)

HasCode(e) == "code" \in DOMAIN e

IsInteger(v) == DOMAIN v = {"t", "neg", "mag"} /\ v.t = "number"

\* byte k (0 the least significant) of a magnitude
ByteOf(mag, k) == (mag[(k \div 2) + 1] \div (IF k % 2 = 0 THEN 1 ELSE 256)) % 256

\* C3: a well-formed revert (the prefix, then the JSON of {code, data: {last_log,
\* return_data}} with a 40-byte log and an ABI-encoded reason behind the 10
\* characters of "0x" and the selector) is translated into an RpcError whose code
\* is the upstream code and whose message is the JSON text of {status_code,
\* status_reason}: the log's status code and the decoded reason.
RevertIsTranslated ==
    \A c \in RevertCases :
        (error = Error(RevertMessage(c)) /\ thrown # Pending) =>
            /\ thrown.type = "throw"
            /\ thrown.error.name = "RpcError"
            /\ thrown.error.code = Num(c.code)
            /\ thrown.error.message = JSONStringify(Receipt(StatusCodeOf(c.log), c.reason))
            /\ JSONParse(thrown.error.message) = Return(Receipt(StatusCodeOf(c.log), c.reason))

RevertWitness ==
    /\ error = Error(RevertMessage([code |-> 5, log |-> LogOnes,
                                    reason |-> <<"a", "\"", "b", "\\">>]))
    /\ thrown.type = "throw"
    /\ thrown.error.name = "RpcError"

\* C4: the translator classifies by prefix, the server-error prefix first: a
\* message that starts with it never gets the outcome of the other two branches; a
\* message that starts with "request to" is raised again as a plain error with
\* the same text; any other message is raised as an RpcError with the code
\* GW_RPC_REQUEST_ERROR and the same text.  Exactly one of the three cases
\* applies to a message.
ThreeWayClassification ==
    LET m == error.message
        isRevert     == Len(m) >= Len(prefix) /\ \A i \in 1..Len(prefix) : m[i] = prefix[i]
        isConnection == Len(m) >= 10 /\ SubSeq(m, 1, 10) = connectionPrefix
    IN  thrown # Pending =>
            /\ ~(isRevert /\ isConnection)
            /\ isRevert =>
                  /\ thrown.type = "throw"
                  /\ thrown.error.message # m
            /\ (~isRevert /\ isConnection) => thrown = Throw([name |-> "Error", message |-> m])
            /\ (~isRevert /\ ~isConnection) =>
                  thrown = Throw([name |-> "RpcError", code |-> Num(GW_RPC_REQUEST_ERROR),
                                  message |-> m])

ClassificationWitness ==
    /\ thrown # Pending
    /\ error.message = connectionPrefix \o <<" ">> \o prefix \o <<"{", "}">>

DecoderAcceptsOnlyForty ==
    \A h \in HexLogItems :
        (logItem = h.item /\ decoded # Pending) =>
            /\ decoded.type = "normal" <=> Len(h.bytes) = 40
            /\ Len(h.bytes) # 40 =>
                  /\ decoded.type = "throw"
                  /\ decoded.error = Error(LengthMessage(Len(h.bytes)))

DecoderLengthWitness ==
    /\ logItem = LogItemOf(HexOf(LogOfLength(41)))
    /\ decoded.type = "throw"

\* C7: of a 40-byte log the decoder returns gasUsed, the unsigned little-endian
\* integer of bytes 0..7; cumulativeGasUsed, that of bytes 8..15; statusCode,
\* that of bytes 32..35; createdAddress, "0x" and the lower-case hex of bytes
\* 16..31, which decodes and encodes back to itself.  Bytes 36..39 play no part.
DecoderFields ==
    \A h \in HexLogItems :
        (logItem = h.item /\ decoded.type = "normal") =>
            LET r == decoded.value
                b == h.bytes
            IN  /\ r.gasUsed.t = "bigint" /\ ~r.gasUsed.neg
                /\ \A k \in 0..7 : ByteOf(r.gasUsed.mag, k) = b[k + 1]
                /\ \A i \in 1..4 : r.gasUsed.mag[i] < Limb
                /\ r.cumulativeGasUsed.t = "bigint" /\ ~r.cumulativeGasUsed.neg
                /\ \A k \in 0..7 : ByteOf(r.cumulativeGasUsed.mag, k) = b[k + 9]
                /\ r.statusCode.t = "number" /\ ~r.statusCode.neg
                /\ \A k \in 0..3 : ByteOf(r.statusCode.mag, k) = b[k + 33]
                /\ \A k \in 4..7 : ByteOf(r.statusCode.mag, k) = 0
                /\ Len(r.createdAddress) = 34
                /\ SubSeq(r.createdAddress, 1, 2) = <<"0", "x">>
                /\ \A k \in 1..16 :
                      /\ r.createdAddress[2 * k + 1] = HexChars[(b[16 + k] \div 16) + 1]
                      /\ r.createdAddress[2 * k + 2] = HexChars[(b[16 + k] % 16) + 1]
                /\ BufferFromHex(Slice(r.createdAddress, 2)) = SubSeq(b, 17, 32)
                /\ HexOf(BufferFromHex(Slice(r.createdAddress, 2))) = r.createdAddress
                /\ (b = LogTail => decoded = parsePolyjuiceSystemLog(LogItemOf(HexOf(LogCount))))

DecoderFieldsWitness ==
    /\ logItem = LogItemOf(HexOf(LogHigh))
    /\ decoded.type = "normal"
    /\ decoded.value.statusCode.mag = <<0, 32768, 0, 0>>

(***************************************************************************)
(* Properties of the forwarding methods (SpecForward, SpecConcurrent).     *)
(***************************************************************************)

Settled(c) == reply[c].state \in {"resolved", "rejected"}

Done(c) == calls[c].pc \in {"returned", "thrown"}

\* C1: the forwarding methods are the nineteen named ones; an invocation issues
\* exactly one outbound call, of the method "gw_" and the name of the invoked
\* method, with the arguments of the invocation in their order; when that call
\* succeeds the method returns its result as it is.
ForwardsVerbatim ==
    /\ MethodNames =
          { "ping", "get_tip_block_hash", "get_block_hash", "get_block",
            "get_block_by_number", "get_balance", "get_storage_at",
            "get_account_id_by_script_hash", "get_nonce", "get_script",
            "get_script_hash", "get_data", "get_transaction_receipt", "get_transaction",
            "execute_l2transaction", "execute_raw_l2transaction", "submit_l2transaction",
            "submit_withdrawal_request", "get_script_hash_by_short_address" }
    /\ \A c \in 1..Len(calls) :
          /\ calls[c].pc = "idle" => wire[c] = <<>>
          /\ calls[c].pc # "idle" =>
                /\ Len(wire[c]) = 1
                /\ wire[c][1].method = "gw_" \o calls[c].method
                /\ wire[c][1].params = calls[c].args
          /\ (Done(c) /\ reply[c].state = "resolved") =>
                /\ calls[c].pc = "returned"
                /\ calls[c].value = reply[c].value

ForwardWitness ==
    /\ calls[1].pc = "returned"
    /\ calls[1].method = "get_script_hash_by_short_address"
    /\ calls[1].args = <<"0x2", "0x1">>
    /\ calls[1].value = Str(<<"0", "x", "1">>)

\* C2: when the outbound call fails, the method does not return, not even
\* undefined: it ends by throwing an error, and it has issued the one outbound
\* call and no other.
FailureAlwaysThrows ==
    \A c \in 1..Len(calls) :
        (Done(c) /\ reply[c].state = "rejected") =>
            /\ calls[c].pc = "thrown"
            /\ DOMAIN calls[c] = {"pc", "method", "args", "error"}
            /\ IsString(calls[c].error.message)
            /\ Len(wire[c]) = 1

FailureWitness ==
    /\ calls[1].pc = "thrown"
    /\ reply[1] = [state |-> "rejected", error |-> Error(<<"b", "o", "o", "m">>)]
    /\ calls[1].error.name = "RpcError"

\* what an invocation ends with, by the outcome of its own outbound call alone
ExpectedOutcome(rep) ==
    IF rep.state = "resolved" THEN [pc |-> "returned", value |-> rep.value]
    ELSE IF rep.error = Error(connectionPrefix)
    THEN [pc |-> "thrown", error |-> Error(connectionPrefix)]
    ELSE IF rep.error = Error(<<"b", "o", "o", "m">>)
    THEN [pc |-> "thrown",
          error |-> [name |-> "RpcError", code |-> Num(GW_RPC_REQUEST_ERROR),
                     message |-> <<"b", "o", "o", "m">>]]
    ELSE [pc |-> "thrown",
          error |-> [name |-> "RpcError", code |-> Num(5),
                     message |-> JSONStringify(Receipt(StatusCodeOf(LogCount), <<"n", "o">>))]]

OutcomeIsOwn ==
    \A c \in 1..Len(calls) :
        Done(c) =>
            /\ Settled(c)
            /\ [f \in DOMAIN calls[c] \ {"method", "args"} |-> calls[c][f]]
                    = ExpectedOutcome(reply[c])

\* C10: with several invocations in flight in any interleaving, an invocation
\* stays suspended until its own outbound call has settled, and what it returns
\* or throws is fixed by the outcome of that call alone, whatever the other
\* invocations do and in whatever order; once it has ended, its outcome stays.
ConcurrentCallsIndependent ==
    /\ []OutcomeIsOwn
    /\ [][\A c \in 1..Len(calls) :
            /\ (calls[c].pc = "awaiting" /\ calls'[c].pc # "awaiting") => Settled(c)
            /\ (calls[c].pc = "awaiting" /\ ~Settled(c)) => calls'[c] = calls[c]
            /\ Done(c) => calls'[c] = calls[c]]_vars

ConcurrentWitness ==
    /\ calls[1].pc = "returned"
    /\ calls[2].pc = "thrown"
    /\ calls[1].method = calls[2].method
    /\ calls[2].error.name = "Error"

(***************************************************************************)
(* Properties of Net (SpecNet) and of the telemetry scripts (SpecTelemetry)*)
(***************************************************************************)

NetCallbacksMatch ==
    /\ Len(callbacks) = Len(netCalls)
    /\ \A i \in 1..Len(callbacks) :
          /\ callbacks[i].method = netCalls[i].method
          /\ callbacks[i].err = Null
          /\ callbacks[i].method = "peerCount" => callbacks[i].value = 0
          /\ callbacks[i].method = "version" => callbacks[i].value = chain_id
          /\ callbacks[i].method = "listening" => callbacks[i].value \in BOOLEAN

\* C8: each of version, peerCount and listening, whatever its arguments, calls its
\* callback exactly once, with no error and its value: 0 for peerCount, the
\* configured chain id for version, the server's listening flag as it is at the
\* call for listening; and the call changes neither the chain id nor the flag.
NetAlwaysSucceeds ==
    /\ []NetCallbacksMatch
    /\ [][netCalls' # netCalls =>
            /\ Len(netCalls') = Len(netCalls) + 1
            /\ callbacks' = Append(callbacks, callbacks'[Len(callbacks')])
            /\ netCalls'[Len(netCalls')].method = "listening" =>
                  callbacks'[Len(callbacks')].value = isListening
            /\ chain_id' = chain_id
            /\ isListening' = isListening]_vars

NetWitness ==
    /\ Len(callbacks) = 3
    /\ callbacks[1].method = "listening" /\ callbacks[1].value = TRUE
    /\ callbacks[2].method = "listening" /\ callbacks[2].value = FALSE
    /\ callbacks[3].method = "peerCount" /\ callbacks[3].value = 0
    /\ \A i \in 1..3 : callbacks[i].err = Null
    /\ netCalls[3].args = <<"0x2", "0x1">>

\* C9: every bootstrap script has registered one SIGTERM handler when its body
\* has run; a delivered SIGTERM has started the sdk's shutdown; the process
\* exits only once the shutdown has settled, and then with code 0.
TeardownInEveryScript ==
    \A s \in 1..Len(Scripts) :
        /\ script[s].pc # "loading" => script[s].handlers = 1
        /\ script[s].signals > 0 => script[s].shutdown # "none"
        /\ script[s].pc \notin {"loading", "running"} =>
              /\ script[s].pc = "exited"
              /\ script[s].shutdown \in {"resolved", "rejected"}
              /\ script[s].exitCode = 0

\* the part of C9 that the scripts whose body runs to its end do meet, the exit
\* included: a delivered SIGTERM leads to the exit with code 0
TeardownWhereBodyRuns ==
    /\ [](\A s \in 1..Len(Scripts) :
            ~LoadThrows(s) =>
                /\ script[s].pc # "loading" => script[s].handlers = 1
                /\ script[s].signals > 0 => script[s].shutdown # "none"
                /\ script[s].pc = "exited" =>
                      /\ script[s].shutdown \in {"resolved", "rejected"}
                      /\ script[s].exitCode = 0)
    /\ \A s \in 1..Len(Scripts) :
          ~LoadThrows(s) =>
              (script[s].signals > 0 ~> (script[s].pc = "exited" /\ script[s].exitCode = 0))

====
